---- MODULE Spec2Model ----
(***************************************************************************)
(* Model of src/app.py: the PDF keyword paragraph extractor.               *)
(*                                                                         *)
(* A text (Python str) is a sequence of one-character strings, so that     *)
(* splitting, stripping, lower-casing and substring search are computed    *)
(* character by character as the Python code computes them.                *)
(***************************************************************************)
EXTENDS Integers, Sequences, FiniteSets, TLC

VARIABLES
  pc,              \* position in the script / in the function under check
  pdf_bytes,       \* app.py:95-106  "None", "empty" (b""), "pdf" or "unparseable"
  pages,           \* what PdfReader(...).pages yields, one record per page
  paragraphs,      \* app.py:116
  keywords_input,  \* app.py:86
  keywords,        \* app.py:121
  min_len,         \* app.py:88
  show_raw,        \* app.py:89
  max_paragraphs_display,  \* app.py:90
  policy,          \* the MatchPolicy the caller asks for (spec 4.2); app.py has no such input
  matched,         \* app.py:127
  tokens,          \* app.py:154
  keyword_counts,  \* app.py:186
  out,             \* what the script has shown so far (st.write / st.info / ...)
  stages           \* the stages of the script executed so far, in order

vars == <<pc, pdf_bytes, pages, paragraphs, keywords_input, keywords, min_len,
          show_raw, max_paragraphs_display, policy, matched, tokens,
          keyword_counts, out, stages>>

----------------------------------------------------------------------------
(* Characters *)

Uppers == <<"A","B","C","D","E","F","G","H","I","J","K","L","M",
            "N","O","P","Q","R","S","T","U","V","W","X","Y","Z">>
Lowers == <<"a","b","c","d","e","f","g","h","i","j","k","l","m",
            "n","o","p","q","r","s","t","u","v","w","x","y","z">>
Digits == {"0","1","2","3","4","5","6","7","8","9"}

\* Characters that str.strip() removes and that the regex class \s matches
\* (str.isspace): blank, tab, newline, carriage return, form feed, and the
\* control characters U+000B, U+001C, U+001D, U+001E, U+001F written as they are.
\* The whitespace characters beyond ASCII (U+0085, U+00A0, U+2000, ...) are
\* not characters of any text of this model.
Whitespace == {" ", "\t", "\n", "\r", "\f", "", "", "", "", ""}

Range(s) == {s[i] : i \in 1..Len(s)}

\* str.lower() on one character.
LowerChar(c) ==
  IF \E i \in 1..26 : Uppers[i] = c
  THEN Lowers[CHOOSE i \in 1..26 : Uppers[i] = c]
  ELSE c

\* str.lower()
Lower(t) == [i \in 1..Len(t) |-> LowerChar(t[i])]

\* str.isalnum(): non-empty and every character a letter or a digit.
IsAlnum(t) ==
  /\ Len(t) > 0
  /\ \A i \in 1..Len(t) : t[i] \in Range(Uppers) \cup Range(Lowers) \cup Digits

RECURSIVE LStrip(_)
LStrip(t) == IF t # <<>> /\ Head(t) \in Whitespace THEN LStrip(Tail(t)) ELSE t

RECURSIVE RStrip(_)
RStrip(t) ==
  IF t # <<>> /\ t[Len(t)] \in Whitespace THEN RStrip(SubSeq(t, 1, Len(t) - 1)) ELSE t

\* str.strip()
Strip(t) == RStrip(LStrip(t))

\* sep.join(ts)
RECURSIVE Join(_, _)
Join(sep, ts) ==
  IF ts = <<>> THEN <<>>
  ELSE IF Len(ts) = 1 THEN ts[1]
  ELSE ts[1] \o sep \o Join(sep, Tail(ts))

\* sub in t  (Python substring test; the empty text is in every text)
Contains(sub, t) ==
  \E i \in 1..(Len(t) - Len(sub) + 1) : SubSeq(t, i, i + Len(sub) - 1) = sub

----------------------------------------------------------------------------
(* extract_paragraphs_from_pdf_bytes, app.py:40-64 *)

\* The positions of the set S, a subset of 1..n, in increasing order.
Ascending(S, n) == SelectSeq([i \in 1..n |-> i], LAMBDA i : i \in S)

\* The last position of the run of characters of S that holds position i.
RunEnd(t, i, S) ==
  CHOOSE j \in i..Len(t) :
    /\ \A k \in i..j : t[k] \in S
    /\ j = Len(t) \/ t[j + 1] \notin S

\* re.split(r'\n{2,}', t): cut at every maximal run of two or more newlines;
\* a single newline stays inside its fragment; fragments may be empty.
SplitParagraphs(t) ==
  LET IsCut(i) == /\ t[i] = "\n"
                  /\ i < Len(t) /\ t[i + 1] = "\n"
                  /\ i = 1 \/ t[i - 1] # "\n"
      cuts == Ascending({i \in 1..Len(t) : IsCut(i)}, Len(t))
      n    == Len(cuts)
  IN  [k \in 1..(n + 1) |->
         SubSeq(t,
                IF k = 1 THEN 1 ELSE RunEnd(t, cuts[k - 1], {"\n"}) + 1,
                IF k = n + 1 THEN Len(t) ELSE cuts[k] - 1)]

\* app.py:51-54: the text of one page; None or an exception gives "".
PageText(page) == IF page.kind = "text" THEN page.text ELSE <<>>

\* The loop of app.py:60-63 without its p.strip().
RECURSIVE KeepNonEmpty_NoStrip(_)
KeepNonEmpty_NoStrip(raw_pars) ==
  IF raw_pars = <<>> THEN <<>>
  ELSE (IF Head(raw_pars) # <<>> THEN <<Head(raw_pars)>> ELSE <<>>)
         \o KeepNonEmpty_NoStrip(Tail(raw_pars))

\* app.py:60-63: strip every fragment and keep the non-empty ones.
RECURSIVE KeepNonEmpty(_)
KeepNonEmpty(raw_pars) ==
  IF raw_pars = <<>> THEN <<>>
  ELSE LET p == Strip(Head(raw_pars))
       IN  (IF p # <<>> THEN <<p>> ELSE <<>>) \o KeepNonEmpty(Tail(raw_pars))

\* app.py:49-64: the segmenter, given the pages the reader yields.
SegmentPages(pgs) ==
  LET texts     == [i \in 1..Len(pgs) |-> PageText(pgs[i])]
      full_text == Join(<<"\n">>, texts)
  IN  KeepNonEmpty(SplitParagraphs(full_text))

\* app.py:48-50: PdfReader(io.BytesIO(pdf_bytes)) and reader.pages stand outside
\* the try of app.py:51-54: bytes PyPDF2 cannot read raise out of the function.
PdfReaderOutcome(bytes) == IF bytes = "unparseable" THEN "PdfReadError" ELSE "pages"

\* app.py:40-64, for bytes that are empty or that the reader can read.
extract_paragraphs_from_pdf_bytes(bytes, pgs) ==
  IF bytes = "empty" THEN <<>> ELSE SegmentPages(pgs)

----------------------------------------------------------------------------
(* The segmenter as a function of the pages: specification SpecSegment *)

MaxPages == 3
MaxPageLen == 1

\* Characters of the page texts: a letter, a blank, a newline, a form feed.
SegChars == {"a", " ", "\n", "\f"}

TextsUpTo(chars, n) == UNION {[1..k -> chars] : k \in 0..n}

\* A page yields a text, None (app.py:52, "or ''") or an exception (app.py:53).
PageValues ==
  {[kind |-> "text", text |-> t] : t \in TextsUpTo(SegChars, MaxPageLen)}
    \cup {[kind |-> "none", text |-> <<>>], [kind |-> "raises", text |-> <<>>]}

PageSeqs == UNION {[1..k -> PageValues] : k \in 0..MaxPages}

InitSegment ==
  /\ pc = "segment"
  /\ pdf_bytes = "pdf"
  /\ pages \in PageSeqs
  /\ paragraphs = <<>>
  /\ keywords_input = <<>>
  /\ keywords = <<>>
  /\ min_len = 0
  /\ policy = "ANY"
  /\ matched = <<>>
  /\ tokens = <<>>
  /\ keyword_counts = <<>>
  /\ out = <<>>
  /\ stages = <<>>
  /\ show_raw = TRUE
  /\ max_paragraphs_display = 200

\* app.py:116 on its own: paragraphs = extract_paragraphs_from_pdf_bytes(pdf_bytes)
Segment ==
  /\ pc = "segment"
  /\ paragraphs' = extract_paragraphs_from_pdf_bytes(pdf_bytes, pages)
  /\ pc' = "segmented"
  /\ UNCHANGED <<pdf_bytes, pages, keywords_input, keywords, min_len, policy,
                 matched, tokens, keyword_counts, out, stages, show_raw, max_paragraphs_display>>

NextSegment == Segment

SpecSegment == InitSegment /\ [][NextSegment]_vars

\* C1: every paragraph the segmenter returns is non-empty and neither starts
\* nor ends with a whitespace character (so none is blank or whitespace-only),
\* whatever the pages are: empty, whitespace-only or made of newlines.
C1_NoBlankParagraph ==
  pc = "segmented" =>
    \A i \in 1..Len(paragraphs) :
      /\ paragraphs[i] # <<>>
      /\ Head(paragraphs[i]) \notin Whitespace
      /\ paragraphs[i][Len(paragraphs[i])] \notin Whitespace
      /\ \E j \in 1..Len(paragraphs[i]) : paragraphs[i][j] \notin Whitespace

\* A run of the segmenter over an empty page, a whitespace-only page and a
\* page with text, where a fragment was dropped and one survived trimmed.
C1_Witness ==
  /\ pc = "segmented"
  /\ \E i \in 1..Len(pages) : PageText(pages[i]) = <<>>
  /\ \E i \in 1..Len(pages) : PageText(pages[i]) \in {<<" ">>, <<"\n">>, <<"\f">>}
  /\ paragraphs # <<>>
  /\ LET full == Join(<<"\n">>, [i \in 1..Len(pages) |-> PageText(pages[i])])
     IN  /\ Len(SplitParagraphs(full)) > Len(paragraphs)
         /\ Strip(full) # full

RemoveAt(s, i) == SubSeq(s, 1, i - 1) \o SubSeq(s, i + 1, Len(s))

\* C9: a page with no text (extraction failed or returned nothing) changes
\* nothing: the paragraphs are those of the same pages with that page removed.
C9_EmptyPageIsNeutral ==
  pc = "segmented" =>
    \A i \in 1..Len(pages) :
      PageText(pages[i]) = <<>> => paragraphs = SegmentPages(RemoveAt(pages, i))

----------------------------------------------------------------------------
(* filter_paragraphs, app.py:69-78 *)

\* app.py:70: kws = [k.strip().lower() for k in keywords if k.strip()]
RECURSIVE CleanKeywords(_)
CleanKeywords(ks) ==
  IF ks = <<>> THEN <<>>
  ELSE (IF Strip(Head(ks)) # <<>> THEN <<Lower(Strip(Head(ks)))>> ELSE <<>>)
         \o CleanKeywords(Tail(ks))

\* app.py:76: any(k in low for k in kws)
AnyKeywordIn(kws, low) == \E i \in 1..Len(kws) : Contains(kws[i], low)

\* The loop of app.py:72-77 with matched.insert(0, p) for matched.append(p).
RECURSIVE FilterLoop_Prepend(_, _, _)
FilterLoop_Prepend(ps, kws, min) ==
  IF ps = <<>> THEN <<>>
  ELSE LET p == Head(ps)
       IN  IF Len(p) < min
           THEN FilterLoop_Prepend(Tail(ps), kws, min)
           ELSE IF AnyKeywordIn(kws, Lower(p))
                THEN FilterLoop_Prepend(Tail(ps), kws, min) \o <<p>>
                ELSE FilterLoop_Prepend(Tail(ps), kws, min)

\* The loop of app.py:72-77 with len(p) <= min_len for len(p) < min_len.
RECURSIVE FilterLoop_StrictLength(_, _, _)
FilterLoop_StrictLength(ps, kws, min) ==
  IF ps = <<>> THEN <<>>
  ELSE LET p == Head(ps)
       IN  IF Len(p) <= min
           THEN FilterLoop_StrictLength(Tail(ps), kws, min)
           ELSE IF AnyKeywordIn(kws, Lower(p))
                THEN <<p>> \o FilterLoop_StrictLength(Tail(ps), kws, min)
                ELSE FilterLoop_StrictLength(Tail(ps), kws, min)

\* app.py:72-77: the loop over the paragraphs, in order.
RECURSIVE FilterLoop(_, _, _)
FilterLoop(ps, kws, min) ==
  IF ps = <<>> THEN <<>>
  ELSE LET p == Head(ps)
       IN  IF Len(p) < min
           THEN FilterLoop(Tail(ps), kws, min)
           ELSE IF AnyKeywordIn(kws, Lower(p))
                THEN <<p>> \o FilterLoop(Tail(ps), kws, min)
                ELSE FilterLoop(Tail(ps), kws, min)

\* app.py:69-78
filter_paragraphs(ps, ks, min) == FilterLoop(ps, CleanKeywords(ks), min)

\* One thing the script shows or returns: its kind, a number, a text.
Msg(kind, n, text) == [kind |-> kind, n |-> n, text |-> text]

Kinds(msgs) == {msgs[i].kind : i \in 1..Len(msgs)}

----------------------------------------------------------------------------
(* filter_paragraphs as a function of its arguments: specification SpecFilter *)

MaxParagraphs == 3
MaxKeywords == 2

\* "Every day"
P_Every == <<"E","v","e","r","y"," ","d","a","y">>
\* "EV"
P_EV == <<"E","V">>
\* "Costs"
P_Costs == <<"C","o","s","t","s">>
\* "ev revenue"
P_EvRevenue == <<"e","v"," ","r","e","v","e","n","u","e">>

ParagraphPool == {P_Every, P_EV, P_Costs, P_EvRevenue}

\* "ev"
K_ev == <<"e","v">>
\* " EV "
K_EV_padded == <<" ","E","V"," ">>
\* "Revenue"
K_Revenue == <<"R","e","v","e","n","u","e">>
\* ""
K_empty == <<>>

KeywordPool == {K_ev, K_EV_padded, K_Revenue, K_empty}

\* Lengths of paragraphs of the pool.
MinLenPool == {2, 5, 10}

SeqsUpTo(S, n) == UNION {[1..k -> S] : k \in 0..n}

InitFilter ==
  /\ pc = "filter"
  /\ pdf_bytes = "pdf"
  /\ pages = <<>>
  /\ paragraphs \in SeqsUpTo(ParagraphPool, MaxParagraphs)
  /\ keywords_input = <<>>
  /\ keywords \in SeqsUpTo(KeywordPool, MaxKeywords)
  /\ min_len \in MinLenPool
  /\ policy \in {"ANY", "ALL"}
  /\ matched = <<>>
  /\ tokens = <<>>
  /\ keyword_counts = <<>>
  /\ out = <<>>
  /\ stages = <<>>
  /\ show_raw = TRUE
  /\ max_paragraphs_display = 200

\* A call filter_paragraphs(paragraphs, keywords, min_len=min_len). The function
\* has no policy parameter and no raise statement: it returns a list.
Filter ==
  /\ pc = "filter"
  /\ matched' = filter_paragraphs(paragraphs, keywords, min_len)
  /\ out' = <<Msg("returned", Len(matched'), <<>>)>>
  /\ pc' = "filtered"
  /\ UNCHANGED <<pdf_bytes, pages, paragraphs, keywords_input, keywords, min_len,
                 policy, tokens, keyword_counts, stages, show_raw, max_paragraphs_display>>

NextFilter == Filter

SpecFilter == InitFilter /\ [][NextFilter]_vars

\* s is t restricted to strictly increasing positions of t.
IsSubsequence(s, t) ==
  \E f \in [1..Len(s) -> 1..Len(t)] :
    /\ \A i \in 1..Len(s) : t[f[i]] = s[i]
    /\ \A i, j \in 1..Len(s) : i < j => f[i] < f[j]

\* C2: what filter_paragraphs returns is a subsequence of the paragraphs it
\* was given: unmodified paragraphs, in input order, no position used twice.
C2_MatchedIsSubsequence ==
  pc = "filtered" => IsSubsequence(matched, paragraphs)

\* Two paragraphs were kept out of three or more given, duplicates included.
C2_Witness ==
  /\ pc = "filtered"
  /\ Len(matched) >= 2
  /\ Len(matched) < Len(paragraphs)
  /\ matched[1] # matched[2]

\* The keyword k, as the matcher reads it, is found in paragraph p.
KeywordFound(k, p) == Strip(k) # <<>> /\ Contains(Lower(Strip(k)), Lower(p))

\* C3: under ANY a paragraph is returned if and only if its length is at
\* least min_len and some keyword (trimmed, lower-cased, non-empty) is a
\* substring of the lower-cased paragraph.
C3_AnyPolicy ==
  (pc = "filtered" /\ policy = "ANY") =>
    \A i \in 1..Len(paragraphs) :
      (\E j \in 1..Len(matched) : matched[j] = paragraphs[i])
        <=> /\ Len(paragraphs[i]) >= min_len
            /\ \E k \in 1..Len(keywords) : KeywordFound(keywords[k], paragraphs[i])

\* "Every day" is kept for the keyword " EV " (inside a word, another case),
\* while "EV" is dropped for being shorter than min_len.
C3_Witness ==
  /\ pc = "filtered"
  /\ policy = "ANY"
  /\ keywords = <<K_EV_padded>>
  /\ paragraphs = <<P_EV, P_Every>>
  /\ min_len = 5
  /\ matched = <<P_Every>>

\* C6: the policy is a choice of the caller, and under ALL a returned
\* paragraph contains every keyword of the keyword set.
C6_AllPolicy ==
  (pc = "filtered" /\ policy = "ALL") =>
    \A j \in 1..Len(matched) :
      \A k \in 1..Len(CleanKeywords(keywords)) :
        Contains(CleanKeywords(keywords)[k], Lower(matched[j]))

----------------------------------------------------------------------------
(* Tokens for the frequency table and the word cloud, app.py:143-154 *)

\* app.py:144: re.sub(r'[^a-z0-9\s]', ' ', combined)
ReplaceNonAlnum(t) ==
  [i \in 1..Len(t) |->
     IF t[i] \in Range(Lowers) \cup Digits \cup Whitespace THEN t[i] ELSE " "]

\* app.py:145: re.sub(r'\s+', ' ', combined): every run of whitespace becomes one blank.
CollapseWhitespace(t) ==
  LET IsKept(i) == t[i] \notin Whitespace \/ i = 1 \/ t[i - 1] \notin Whitespace
      kept == Ascending({i \in 1..Len(t) : IsKept(i)}, Len(t))
  IN  [k \in 1..Len(kept) |-> IF t[kept[k]] \in Whitespace THEN " " ELSE t[kept[k]]]

\* app.py:143-145
Combined(ms) == CollapseWhitespace(ReplaceNonAlnum(Lower(Join(<<" ">>, ms))))

\* The words of t between its whitespace, in order.
BlankSplit(t) ==
  LET NotBlank == Range(t) \ Whitespace
      IsStart(i) == t[i] \notin Whitespace /\ (i = 1 \/ t[i - 1] \in Whitespace)
      starts == Ascending({i \in 1..Len(t) : IsStart(i)}, Len(t))
  IN  [k \in 1..Len(starts) |-> SubSeq(t, starts[k], RunEnd(t, starts[k], NotBlank))]

\* The contractions the NLTK word tokenizer cuts in two: cannot, gimme, gonna,
\* gotta, lemme, wanna, each given as its two pieces. (Its other contraction
\* rules need an apostrophe, which app.py:144 has replaced by a blank.)
Contractions2 ==
  { <<<<"c","a","n">>, <<"n","o","t">>>>,
    <<<<"g","i","m">>, <<"m","e">>>>,
    <<<<"g","o","n">>, <<"n","a">>>>,
    <<<<"g","o","t">>, <<"t","a">>>>,
    <<<<"l","e","m">>, <<"m","e">>>>,
    <<<<"w","a","n">>, <<"n","a">>>> }

\* One word as the tokenizer returns it: itself, or the two pieces of a contraction.
TokenizeWord(w) ==
  IF \E c \in Contractions2 : c[1] \o c[2] = w
  THEN CHOOSE c \in Contractions2 : c[1] \o c[2] = w
  ELSE <<w>>

RECURSIVE Flatten(_)
Flatten(ss) == IF ss = <<>> THEN <<>> ELSE Head(ss) \o Flatten(Tail(ss))

\* app.py:154: word_tokenize(combined). The text holds lowercase letters, digits
\* and single blanks only (app.py:143-145): one sentence, cut at the blanks,
\* the contractions cut in two.
word_tokenize(t) ==
  LET words == BlankSplit(t)
  IN  Flatten([k \in 1..Len(words) |-> TokenizeWord(words[k])])

\* app.py:148: stopwords.words("english"), the English list of the NLTK corpus.
english_stopwords == {
  <<"i">>, <<"m","e">>, <<"m","y">>, <<"m","y","s","e","l","f">>, <<"w","e">>, <<"o","u","r">>,
  <<"o","u","r","s">>, <<"o","u","r","s","e","l","v","e","s">>, <<"y","o","u">>,
  <<"y","o","u","'","r","e">>, <<"y","o","u","'","v","e">>, <<"y","o","u","'","l","l">>,
  <<"y","o","u","'","d">>, <<"y","o","u","r">>, <<"y","o","u","r","s">>,
  <<"y","o","u","r","s","e","l","f">>, <<"y","o","u","r","s","e","l","v","e","s">>, <<"h","e">>,
  <<"h","i","m">>, <<"h","i","s">>, <<"h","i","m","s","e","l","f">>, <<"s","h","e">>,
  <<"s","h","e","'","s">>, <<"h","e","r">>, <<"h","e","r","s">>, <<"h","e","r","s","e","l","f">>,
  <<"i","t">>, <<"i","t","'","s">>, <<"i","t","s">>, <<"i","t","s","e","l","f">>,
  <<"t","h","e","y">>, <<"t","h","e","m">>, <<"t","h","e","i","r">>, <<"t","h","e","i","r","s">>,
  <<"t","h","e","m","s","e","l","v","e","s">>, <<"w","h","a","t">>, <<"w","h","i","c","h">>,
  <<"w","h","o">>, <<"w","h","o","m">>, <<"t","h","i","s">>, <<"t","h","a","t">>,
  <<"t","h","a","t","'","l","l">>, <<"t","h","e","s","e">>, <<"t","h","o","s","e">>, <<"a","m">>,
  <<"i","s">>, <<"a","r","e">>, <<"w","a","s">>, <<"w","e","r","e">>, <<"b","e">>,
  <<"b","e","e","n">>, <<"b","e","i","n","g">>, <<"h","a","v","e">>, <<"h","a","s">>,
  <<"h","a","d">>, <<"h","a","v","i","n","g">>, <<"d","o">>, <<"d","o","e","s">>, <<"d","i","d">>,
  <<"d","o","i","n","g">>, <<"a">>, <<"a","n">>, <<"t","h","e">>, <<"a","n","d">>, <<"b","u","t">>,
  <<"i","f">>, <<"o","r">>, <<"b","e","c","a","u","s","e">>, <<"a","s">>, <<"u","n","t","i","l">>,
  <<"w","h","i","l","e">>, <<"o","f">>, <<"a","t">>, <<"b","y">>, <<"f","o","r">>,
  <<"w","i","t","h">>, <<"a","b","o","u","t">>, <<"a","g","a","i","n","s","t">>,
  <<"b","e","t","w","e","e","n">>, <<"i","n","t","o">>, <<"t","h","r","o","u","g","h">>,
  <<"d","u","r","i","n","g">>, <<"b","e","f","o","r","e">>, <<"a","f","t","e","r">>,
  <<"a","b","o","v","e">>, <<"b","e","l","o","w">>, <<"t","o">>, <<"f","r","o","m">>, <<"u","p">>,
  <<"d","o","w","n">>, <<"i","n">>, <<"o","u","t">>, <<"o","n">>, <<"o","f","f">>,
  <<"o","v","e","r">>, <<"u","n","d","e","r">>, <<"a","g","a","i","n">>,
  <<"f","u","r","t","h","e","r">>, <<"t","h","e","n">>, <<"o","n","c","e">>, <<"h","e","r","e">>,
  <<"t","h","e","r","e">>, <<"w","h","e","n">>, <<"w","h","e","r","e">>, <<"w","h","y">>,
  <<"h","o","w">>, <<"a","l","l">>, <<"a","n","y">>, <<"b","o","t","h">>, <<"e","a","c","h">>,
  <<"f","e","w">>, <<"m","o","r","e">>, <<"m","o","s","t">>, <<"o","t","h","e","r">>,
  <<"s","o","m","e">>, <<"s","u","c","h">>, <<"n","o">>, <<"n","o","r">>, <<"n","o","t">>,
  <<"o","n","l","y">>, <<"o","w","n">>, <<"s","a","m","e">>, <<"s","o">>, <<"t","h","a","n">>,
  <<"t","o","o">>, <<"v","e","r","y">>, <<"s">>, <<"t">>, <<"c","a","n">>, <<"w","i","l","l">>,
  <<"j","u","s","t">>, <<"d","o","n">>, <<"d","o","n","'","t">>, <<"s","h","o","u","l","d">>,
  <<"s","h","o","u","l","d","'","v","e">>, <<"n","o","w">>, <<"d">>, <<"l","l">>, <<"m">>, <<"o">>,
  <<"r","e">>, <<"v","e">>, <<"y">>, <<"a","i","n">>, <<"a","r","e","n">>,
  <<"a","r","e","n","'","t">>, <<"c","o","u","l","d","n">>, <<"c","o","u","l","d","n","'","t">>,
  <<"d","i","d","n">>, <<"d","i","d","n","'","t">>, <<"d","o","e","s","n">>,
  <<"d","o","e","s","n","'","t">>, <<"h","a","d","n">>, <<"h","a","d","n","'","t">>,
  <<"h","a","s","n">>, <<"h","a","s","n","'","t">>, <<"h","a","v","e","n">>,
  <<"h","a","v","e","n","'","t">>, <<"i","s","n">>, <<"i","s","n","'","t">>, <<"m","a">>,
  <<"m","i","g","h","t","n">>, <<"m","i","g","h","t","n","'","t">>, <<"m","u","s","t","n">>,
  <<"m","u","s","t","n","'","t">>, <<"n","e","e","d","n">>, <<"n","e","e","d","n","'","t">>,
  <<"s","h","a","n">>, <<"s","h","a","n","'","t">>, <<"s","h","o","u","l","d","n">>,
  <<"s","h","o","u","l","d","n","'","t">>, <<"w","a","s","n">>, <<"w","a","s","n","'","t">>,
  <<"w","e","r","e","n">>, <<"w","e","r","e","n","'","t">>, <<"w","o","n">>,
  <<"w","o","n","'","t">>, <<"w","o","u","l","d","n">>, <<"w","o","u","l","d","n","'","t">> }

\* app.py:149-151
custom_stop == {
  <<"m","a","h","i","n","d","r","a">>, <<"c","o","m","p","a","n","y">>,
  <<"l","i","m","i","t","e","d">>, <<"r","e","p","o","r","t">>, <<"a","n","n","u","a","l">>,
  <<"p","a","g","e">>, <<"f","i","g","u","r","e">>, <<"t","a","b","l","e">>, <<"n","o","t","e">>,
  <<"n","o","t","e","s">>, <<"f","i","n","a","n","c","i","a","l">>, <<"g","r","o","u","p">>,
  <<"i","n","d","i","a">> }

\* app.py:148 alone, the custom terms never added.
stop_words_EnglishOnly == english_stopwords

\* app.py:152: stop_words |= custom_stop
stop_words == english_stopwords \cup custom_stop

\* app.py:154: the condition of the comprehension.
KeepToken(w) == IsAlnum(w) /\ Len(w) > 2 /\ w \notin stop_words

\* app.py:143-154
BuildTokens(ms) == SelectSeq(word_tokenize(Combined(ms)), KeepToken)

----------------------------------------------------------------------------
(* The tokens as a function of the matched paragraphs: specification SpecTokens *)

MaxMatched == 3

\* "Revenue of the EVs."
T_RevenueEVs == <<"R","e","v","e","n","u","e"," ","o","f"," ","t","h","e"," ","E","V","s",".">>
\* "The annual report"
T_Boilerplate == <<"T","h","e"," ","a","n","n","u","a","l"," ","r","e","p","o","r","t">>
\* "Note: A1 5G1 growth-led"
T_Mixed == <<"N","o","t","e",":"," ","A","1"," ","5","G","1"," ","g","r","o","w","t","h","-","l","e","d">>
\* "GROWTH at 42% page 7"
T_Upper == <<"G","R","O","W","T","H"," ","a","t"," ","4","2","%"," ","p","a","g","e"," ","7">>
\* "Revenue\n2024\trose"
T_Lines == <<"R","e","v","e","n","u","e","\n","2","0","2","4","\t","r","o","s","e">>

\* "We cannot go, gotta\fgrow"
T_Contractions == <<"W","e"," ","c","a","n","n","o","t"," ","g","o",","," ","g","o","t","t","a","\f","g","r","o","w">>

MatchedPool == {T_RevenueEVs, T_Boilerplate, T_Mixed, T_Upper, T_Lines, T_Contractions}

\* The script reaches its line 143 with at least one matched paragraph.
InitTokens ==
  /\ pc = "tokenize"
  /\ pdf_bytes = "pdf"
  /\ pages = <<>>
  /\ paragraphs = <<>>
  /\ keywords_input = <<>>
  /\ keywords = <<>>
  /\ min_len = 0
  /\ policy = "ANY"
  /\ matched \in SeqsUpTo(MatchedPool, MaxMatched) \ {<<>>}
  /\ tokens = <<>>
  /\ keyword_counts = <<>>
  /\ out = <<>>
  /\ stages = <<>>
  /\ show_raw = TRUE
  /\ max_paragraphs_display = 200

\* app.py:143-154 on their own.
Tokenize ==
  /\ pc = "tokenize"
  /\ tokens' = BuildTokens(matched)
  /\ pc' = "tokenized"
  /\ UNCHANGED <<pdf_bytes, pages, paragraphs, keywords_input, keywords, min_len,
                 policy, matched, keyword_counts, out, stages, show_raw, max_paragraphs_display>>

NextTokens == Tokenize

SpecTokens == InitTokens /\ [][NextTokens]_vars

\* C7: every kept token is made of lowercase letters and digits only, is
\* longer than 2 characters and is neither an English stopword nor one of
\* the custom boilerplate terms.
C7_TokensAreClean ==
  pc = "tokenized" =>
    \A i \in 1..Len(tokens) :
      /\ \A j \in 1..Len(tokens[i]) : tokens[i][j] \in Range(Lowers) \cup Digits
      /\ Len(tokens[i]) > 2
      /\ tokens[i] \notin english_stopwords
      /\ tokens[i] \notin custom_stop

\* Tokens were kept while the matched text also held an English stopword, a
\* custom term, a word of two characters, upper case and punctuation.
C7_Witness ==
  /\ pc = "tokenized"
  /\ tokens # <<>>
  /\ LET words == Range(word_tokenize(Combined(matched)))
         raw   == Join(<<" ">>, matched)
         Piece(w) == \E c \in Contractions2 : w \in {c[1], c[2]}
     IN  /\ words \cap english_stopwords # {}
         /\ words \cap custom_stop # {}
         /\ \E i \in 1..Len(tokens) : Piece(tokens[i])
         /\ \E w \in words : Len(w) <= 2
         /\ Lower(raw) # raw
         /\ ReplaceNonAlnum(Lower(raw)) # Lower(raw)

----------------------------------------------------------------------------
(* The script, top to bottom: specification Spec *)

\* app.py:66-67: re.sub(r'\s+', ' ', t).strip()
normalize_text(t) == Strip(CollapseWhitespace(t))

\* str.split(","): the pieces between the commas, empty pieces included.
RECURSIVE SplitComma(_, _)
SplitComma(t, cur) ==
  IF t = <<>> THEN <<cur>>
  ELSE IF Head(t) = "," THEN <<cur>> \o SplitComma(Tail(t), <<>>)
       ELSE SplitComma(Tail(t), Append(cur, Head(t)))

RECURSIVE StripNonEmpty(_)
StripNonEmpty(ks) ==
  IF ks = <<>> THEN <<>>
  ELSE (IF Strip(Head(ks)) # <<>> THEN <<Strip(Head(ks))>> ELSE <<>>)
         \o StripNonEmpty(Tail(ks))

\* app.py:121 without its "if k.strip()": the empty terms are kept.
ParseKeywords_KeepEmpty(input) ==
  LET pieces == SplitComma(input, <<>>)
  IN  [i \in 1..Len(pieces) |-> Strip(pieces[i])]

\* app.py:121: [k.strip() for k in keywords_input.split(",") if k.strip()]
ParseKeywords(input) == StripNonEmpty(SplitComma(input, <<>>))

\* app.py:167: the stopwords of the wordcloud library (WordCloud(...) is given none).
wordcloud_stopwords == {
  <<"a">>, <<"a","b","o","u","t">>, <<"a","b","o","v","e">>, <<"a","f","t","e","r">>,
  <<"a","g","a","i","n">>, <<"a","g","a","i","n","s","t">>, <<"a","l","l">>, <<"a","l","s","o">>,
  <<"a","m">>, <<"a","n">>, <<"a","n","d">>, <<"a","n","y">>, <<"a","r","e">>,
  <<"a","r","e","n","'","t">>, <<"a","s">>, <<"a","t">>, <<"b","e">>,
  <<"b","e","c","a","u","s","e">>, <<"b","e","e","n">>, <<"b","e","f","o","r","e">>,
  <<"b","e","i","n","g">>, <<"b","e","l","o","w">>, <<"b","e","t","w","e","e","n">>,
  <<"b","o","t","h">>, <<"b","u","t">>, <<"b","y">>, <<"c","a","n">>, <<"c","a","n","'","t">>,
  <<"c","a","n","n","o","t">>, <<"c","o","m">>, <<"c","o","u","l","d">>,
  <<"c","o","u","l","d","n","'","t">>, <<"d","i","d">>, <<"d","i","d","n","'","t">>, <<"d","o">>,
  <<"d","o","e","s">>, <<"d","o","e","s","n","'","t">>, <<"d","o","i","n","g">>,
  <<"d","o","n","'","t">>, <<"d","o","w","n">>, <<"d","u","r","i","n","g">>, <<"e","a","c","h">>,
  <<"e","l","s","e">>, <<"e","v","e","r">>, <<"f","e","w">>, <<"f","o","r">>, <<"f","r","o","m">>,
  <<"f","u","r","t","h","e","r">>, <<"g","e","t">>, <<"h","a","d">>, <<"h","a","d","n","'","t">>,
  <<"h","a","s">>, <<"h","a","s","n","'","t">>, <<"h","a","v","e">>,
  <<"h","a","v","e","n","'","t">>, <<"h","a","v","i","n","g">>, <<"h","e">>, <<"h","e","'","d">>,
  <<"h","e","'","l","l">>, <<"h","e","'","s">>, <<"h","e","n","c","e">>, <<"h","e","r">>,
  <<"h","e","r","e">>, <<"h","e","r","e","'","s">>, <<"h","e","r","s">>,
  <<"h","e","r","s","e","l","f">>, <<"h","i","m">>, <<"h","i","m","s","e","l","f">>,
  <<"h","i","s">>, <<"h","o","w">>, <<"h","o","w","'","s">>, <<"h","o","w","e","v","e","r">>,
  <<"h","t","t","p">>, <<"i">>, <<"i","'","d">>, <<"i","'","l","l">>, <<"i","'","m">>,
  <<"i","'","v","e">>, <<"i","f">>, <<"i","n">>, <<"i","n","t","o">>, <<"i","s">>,
  <<"i","s","n","'","t">>, <<"i","t">>, <<"i","t","'","s">>, <<"i","t","s">>,
  <<"i","t","s","e","l","f">>, <<"j","u","s","t">>, <<"k">>, <<"l","e","t","'","s">>,
  <<"l","i","k","e">>, <<"m","e">>, <<"m","o","r","e">>, <<"m","o","s","t">>,
  <<"m","u","s","t","n","'","t">>, <<"m","y">>, <<"m","y","s","e","l","f">>, <<"n","o">>,
  <<"n","o","r">>, <<"n","o","t">>, <<"o","f">>, <<"o","f","f">>, <<"o","n">>, <<"o","n","c","e">>,
  <<"o","n","l","y">>, <<"o","r">>, <<"o","t","h","e","r">>,
  <<"o","t","h","e","r","w","i","s","e">>, <<"o","u","g","h","t">>, <<"o","u","r">>,
  <<"o","u","r","s">>, <<"o","u","r","s","e","l","v","e","s">>, <<"o","u","t">>,
  <<"o","v","e","r">>, <<"o","w","n">>, <<"r">>, <<"s","a","m","e">>, <<"s","h","a","l","l">>,
  <<"s","h","a","n","'","t">>, <<"s","h","e">>, <<"s","h","e","'","d">>,
  <<"s","h","e","'","l","l">>, <<"s","h","e","'","s">>, <<"s","h","o","u","l","d">>,
  <<"s","h","o","u","l","d","n","'","t">>, <<"s","i","n","c","e">>, <<"s","o">>,
  <<"s","o","m","e">>, <<"s","u","c","h">>, <<"t","h","a","n">>, <<"t","h","a","t">>,
  <<"t","h","a","t","'","s">>, <<"t","h","e">>, <<"t","h","e","i","r">>,
  <<"t","h","e","i","r","s">>, <<"t","h","e","m">>, <<"t","h","e","m","s","e","l","v","e","s">>,
  <<"t","h","e","n">>, <<"t","h","e","r","e">>, <<"t","h","e","r","e","'","s">>,
  <<"t","h","e","r","e","f","o","r","e">>, <<"t","h","e","s","e">>, <<"t","h","e","y">>,
  <<"t","h","e","y","'","d">>, <<"t","h","e","y","'","l","l">>, <<"t","h","e","y","'","r","e">>,
  <<"t","h","e","y","'","v","e">>, <<"t","h","i","s">>, <<"t","h","o","s","e">>,
  <<"t","h","r","o","u","g","h">>, <<"t","o">>, <<"t","o","o">>, <<"u","n","d","e","r">>,
  <<"u","n","t","i","l">>, <<"u","p">>, <<"v","e","r","y">>, <<"w","a","s">>,
  <<"w","a","s","n","'","t">>, <<"w","e">>, <<"w","e","'","d">>, <<"w","e","'","l","l">>,
  <<"w","e","'","r","e">>, <<"w","e","'","v","e">>, <<"w","e","r","e">>,
  <<"w","e","r","e","n","'","t">>, <<"w","h","a","t">>, <<"w","h","a","t","'","s">>,
  <<"w","h","e","n">>, <<"w","h","e","n","'","s">>, <<"w","h","e","r","e">>,
  <<"w","h","e","r","e","'","s">>, <<"w","h","i","c","h">>, <<"w","h","i","l","e">>,
  <<"w","h","o">>, <<"w","h","o","'","s">>, <<"w","h","o","m">>, <<"w","h","y">>,
  <<"w","h","y","'","s">>, <<"w","i","t","h">>, <<"w","o","n","'","t">>, <<"w","o","u","l","d">>,
  <<"w","o","u","l","d","n","'","t">>, <<"w","w","w">>, <<"y","o","u">>, <<"y","o","u","'","d">>,
  <<"y","o","u","'","l","l">>, <<"y","o","u","'","r","e">>, <<"y","o","u","'","v","e">>,
  <<"y","o","u","r">>, <<"y","o","u","r","s">>, <<"y","o","u","r","s","e","l","f">>,
  <<"y","o","u","r","s","e","l","v","e","s">> }

\* str.isdigit()
IsDigit(w) == Len(w) > 0 /\ \A i \in 1..Len(w) : w[i] \in Digits

\* app.py:167: WordCloud(..., collocations=False).generate(" ".join(tokens)).
\* The library drops the words made of digits only and its own stopwords, and
\* raises ValueError when no word is left.
WordCloudGenerate(toks) ==
  IF \A i \in 1..Len(toks) : IsDigit(toks[i]) \/ toks[i] \in wordcloud_stopwords
  THEN "ValueError"
  ELSE "word_cloud"

\* app.py:167 without the "if tokens:" of app.py:166.
WordCloudOutcome_NoGuard(toks) == WordCloudGenerate(toks)

\* app.py:166-173
WordCloudOutcome(toks) ==
  IF toks # <<>> THEN WordCloudGenerate(toks) ELSE "info_no_tokens"

\* app.py:186 with "k in p" for "k.lower() in p.lower()".
KeywordCountOf_CaseSensitive(k, ms) ==
  Cardinality({i \in 1..Len(ms) : Contains(k, ms[i])})

\* app.py:186: sum(1 for p in matched if k.lower() in p.lower())
KeywordCountOf(k, ms) ==
  Cardinality({i \in 1..Len(ms) : Contains(Lower(k), Lower(ms[i]))})

\* app.py:186: the dict has one entry per distinct keyword.
KeywordCountsOf(ks, ms) == [k \in Range(ks) |-> KeywordCountOf(k, ms)]

\* app.py:133-134: one line per displayed paragraph.
DisplayLines(ms, max) ==
  [i \in 1..(IF Len(ms) < max THEN Len(ms) ELSE max) |->
     Msg("paragraph", i, normalize_text(ms[i]))]

MaxRunPages == 2

\* "Revenue grew 10%.\n\nCosts declined."
G_Scenario == <<"R","e","v","e","n","u","e"," ","g","r","e","w"," ","1","0","%",".","\n","\n","C","o","s","t","s"," ","d","e","c","l","i","n","e","d",".">>
\* "Semiconductor orders rose."
G_Semi == <<"S","e","m","i","c","o","n","d","u","c","t","o","r"," ","o","r","d","e","r","s"," ","r","o","s","e",".">>
\* "The annual report\n\nEV"
G_Boiler == <<"T","h","e"," ","a","n","n","u","a","l"," ","r","e","p","o","r","t","\n","\n","E","V">>
\* "\n\n \n"
G_Blank == <<"\n","\n"," ","\n">>

\* "EV 2024 12345"
G_Digits == <<"E","V"," ","2","0","2","4"," ","1","2","3","4","5">>

RunPagePool ==
  {[kind |-> "text", text |-> t] : t \in {G_Scenario, G_Semi, G_Boiler, G_Blank, G_Digits}}
    \cup {[kind |-> "raises", text |-> <<>>]}

\* "revenue, semiconductor"
I_RevSemi == <<"r","e","v","e","n","u","e",","," ","s","e","m","i","c","o","n","d","u","c","t","o","r">>
\* ""
I_Empty == <<>>
\* " , "
I_Commas == <<" ",","," ">>
\* "EV,report"
I_EvReport == <<"E","V",",","r","e","p","o","r","t">>
\* "ev, ev"
I_Dup == <<"e","v",","," ","e","v">>
\* "Growth"
I_Growth == <<"G","r","o","w","t","h">>

KeywordInputPool == {I_RevSemi, I_Empty, I_Commas, I_EvReport, I_Dup, I_Growth}

\* app.py:88: the widget's lower limit, and a value above it.
RunMinLenPool == {10, 20}

\* app.py:83-90: the sidebar has been read.
Init ==
  /\ pc = "load"
  /\ pdf_bytes = "None"
  /\ pages = <<>>
  /\ paragraphs = <<>>
  /\ keywords_input \in KeywordInputPool
  /\ keywords = <<>>
  /\ min_len \in RunMinLenPool
  /\ show_raw \in BOOLEAN
  /\ max_paragraphs_display \in {10}
  /\ policy = "ANY"
  /\ matched = <<>>
  /\ tokens = <<>>
  /\ keyword_counts = <<>>
  /\ out = <<>>
  /\ stages = <<>>

Inputs == <<keywords_input, min_len, show_raw, max_paragraphs_display, policy>>

\* app.py:95-110
LoadPdf ==
  /\ pc = "load"
  /\ \E uploaded_file \in {"None", "empty", "pdf", "unparseable"},
        use_repo_pdf \in BOOLEAN,
        repo_file \in {"absent", "unreadable", "empty", "pdf", "unparseable"} :
       LET loaded ==
             IF uploaded_file # "None"
             THEN <<uploaded_file, <<Msg("success_upload", 0, <<>>)>> >>
             ELSE IF use_repo_pdf /\ repo_file # "absent"
                  THEN IF repo_file = "unreadable"
                       THEN <<"None", <<Msg("error_repo", 0, <<>>)>> >>
                       ELSE <<repo_file, <<Msg("success_repo", 0, <<>>)>> >>
                  ELSE <<"None", <<>> >>
       IN  /\ pdf_bytes' = loaded[1]
           /\ IF loaded[1] = "None"
              THEN /\ out' = out \o loaded[2] \o <<Msg("info_no_pdf", 0, <<>>)>>
                   /\ pc' = "stopped"
              ELSE /\ out' = out \o loaded[2]
                   /\ pc' = "extract"
  /\ stages' = Append(stages, "LoadPdf")
  /\ UNCHANGED <<pages, paragraphs, keywords, matched, tokens, keyword_counts>>
  /\ UNCHANGED Inputs

\* app.py:115-118: an exception of the reader ends the script.
ExtractParagraphs ==
  /\ pc = "extract"
  /\ IF pdf_bytes # "empty" /\ PdfReaderOutcome(pdf_bytes) = "PdfReadError"
     THEN /\ out' = Append(out, Msg("PdfReadError", 0, <<>>))
          /\ pc' = "failed"
          /\ UNCHANGED <<pages, paragraphs>>
     ELSE /\ \E pgs \in SeqsUpTo(RunPagePool, MaxRunPages) :
               /\ pages' = (IF pdf_bytes = "empty" THEN <<>> ELSE pgs)
               /\ paragraphs' = extract_paragraphs_from_pdf_bytes(pdf_bytes, pages')
          /\ out' = Append(out, Msg("total_paragraphs", Len(paragraphs'), <<>>))
          /\ pc' = "keywords"
  /\ stages' = Append(stages, "ExtractParagraphs")
  /\ UNCHANGED <<pdf_bytes, keywords, matched, tokens, keyword_counts>>
  /\ UNCHANGED Inputs

\* app.py:120-124
ReadKeywords ==
  /\ pc = "keywords"
  /\ keywords' = ParseKeywords(keywords_input)
  /\ IF keywords' = <<>>
     THEN /\ out' = Append(out, Msg("error_no_keyword", 0, <<>>))
          /\ pc' = "stopped"
     ELSE /\ out' = out
          /\ pc' = "filter_run"
  /\ stages' = Append(stages, "ReadKeywords")
  /\ UNCHANGED <<pdf_bytes, pages, paragraphs, matched, tokens, keyword_counts>>
  /\ UNCHANGED Inputs

\* app.py:126-128
FilterParagraphs ==
  /\ pc = "filter_run"
  /\ matched' = filter_paragraphs(paragraphs, keywords, min_len)
  /\ out' = Append(out, Msg("matching_paragraphs", Len(matched'), <<>>))
  /\ stages' = Append(stages, "FilterParagraphs")
  /\ pc' = "display"
  /\ UNCHANGED <<pdf_bytes, pages, paragraphs, keywords, tokens, keyword_counts>>
  /\ UNCHANGED Inputs

\* app.py:130-138
DisplayMatched ==
  /\ pc = "display"
  /\ LET shown == IF show_raw /\ matched # <<>>
                  THEN <<Msg("subheader_matched", 0, <<>>)>>
                         \o DisplayLines(matched, max_paragraphs_display)
                  ELSE <<>>
     IN  IF matched = <<>>
         THEN /\ out' = out \o shown \o <<Msg("info_no_match", 0, <<>>)>>
              /\ pc' = "stopped"
         ELSE /\ out' = out \o shown
              /\ pc' = "tokens"
  /\ stages' = Append(stages, "DisplayMatched")
  /\ UNCHANGED <<pdf_bytes, pages, paragraphs, keywords, matched, tokens, keyword_counts>>
  /\ UNCHANGED Inputs

\* app.py:140-154
BuildTokenList ==
  /\ pc = "tokens"
  /\ tokens' = BuildTokens(matched)
  /\ stages' = Append(stages, "BuildTokenList")
  /\ pc' = "frequency"
  /\ UNCHANGED <<pdf_bytes, pages, paragraphs, keywords, matched, keyword_counts, out>>
  /\ UNCHANGED Inputs

\* app.py:156-160: one row per distinct token, at most 50 shown.
FrequencyTable ==
  /\ pc = "frequency"
  /\ LET rows == Cardinality(Range(tokens))
     IN  out' = Append(out, Msg("top_tokens", IF rows < 50 THEN rows ELSE 50, <<>>))
  /\ stages' = Append(stages, "FrequencyTable")
  /\ pc' = "wordcloud"
  /\ UNCHANGED <<pdf_bytes, pages, paragraphs, keywords, matched, tokens, keyword_counts>>
  /\ UNCHANGED Inputs

\* app.py:162-173: an exception ends the script.
WordCloudSection ==
  /\ pc = "wordcloud"
  /\ out' = Append(out, Msg(WordCloudOutcome(tokens), 0, <<>>))
  /\ pc' = (IF WordCloudOutcome(tokens) = "ValueError" THEN "failed" ELSE "csv")
  /\ stages' = Append(stages, "WordCloudSection")
  /\ UNCHANGED <<pdf_bytes, pages, paragraphs, keywords, matched, tokens, keyword_counts>>
  /\ UNCHANGED Inputs

\* app.py:175-180: one row per matched paragraph.
DownloadCsv ==
  /\ pc = "csv"
  /\ out' = Append(out, Msg("download_csv", Len(matched), <<>>))
  /\ stages' = Append(stages, "DownloadCsv")
  /\ pc' = "counts"
  /\ UNCHANGED <<pdf_bytes, pages, paragraphs, keywords, matched, tokens, keyword_counts>>
  /\ UNCHANGED Inputs

\* app.py:182-190
KeywordCounts ==
  /\ pc = "counts"
  /\ keyword_counts' = KeywordCountsOf(keywords, matched)
  /\ out' = out \o <<Msg("keyword_counts", Cardinality(Range(keywords)), <<>>),
                     Msg("tip", 0, <<>>)>>
  /\ stages' = Append(stages, "KeywordCounts")
  /\ pc' = "done"
  /\ UNCHANGED <<pdf_bytes, pages, paragraphs, keywords, matched, tokens>>
  /\ UNCHANGED Inputs

Next ==
  \/ LoadPdf
  \/ ExtractParagraphs
  \/ ReadKeywords
  \/ FilterParagraphs
  \/ DisplayMatched
  \/ BuildTokenList
  \/ FrequencyTable
  \/ WordCloudSection
  \/ DownloadCsv
  \/ KeywordCounts

Spec == Init /\ [][Next]_vars

----------------------------------------------------------------------------
(* Properties of the script *)

\* The keyword input holds no term: every piece between its commas is blank.
NoKeywordTerm ==
  \A i \in 1..Len(SplitComma(keywords_input, <<>>)) :
    Strip(SplitComma(keywords_input, <<>>)[i]) = <<>>

\* C4: a keyword set with no term left after trimming is refused with a
\* distinguishable error (InvalidConfiguration, "Please enter at least one
\* keyword."): the run stops there, the filter is never applied to it and no
\* match result, neither "all" nor "none", is shown; the error is shown in
\* no other run.
C4_EmptyKeywordsRejected ==
  /\ ("ReadKeywords" \in Range(stages) /\ NoKeywordTerm) =>
       /\ pc = "stopped"
       /\ out[Len(out)] = Msg("error_no_keyword", 0, <<>>)
       /\ Kinds(out) \cap {"matching_paragraphs", "info_no_match", "subheader_matched",
                           "paragraph", "download_csv", "keyword_counts"} = {}
  /\ NoKeywordTerm => "FilterParagraphs" \notin Range(stages)
  /\ "FilterParagraphs" \in Range(stages) => CleanKeywords(keywords) # <<>>
  /\ "error_no_keyword" \in Kinds(out) => NoKeywordTerm

\* The input " , " was read with paragraphs at hand that other keywords would
\* match; the run stopped on the keyword error.
C4_Witness ==
  /\ pc = "stopped"
  /\ keywords_input = I_Commas
  /\ paragraphs # <<>>
  /\ keywords = <<>>
  /\ "error_no_keyword" \in Kinds(out)

\* C5: when the keyword input yields no keyword, the error comes before any
\* processing: paragraph extraction is not performed in that run, and no
\* later stage is reached either.
C5_ErrorBeforeProcessing ==
  (ParseKeywords(keywords_input) = <<>> /\ "error_no_keyword" \in Kinds(out)) =>
    Range(stages) \cap {"ExtractParagraphs", "FilterParagraphs", "BuildTokenList",
                        "DownloadCsv", "KeywordCounts"} = {}

Ended == pc \in {"stopped", "done", "failed"}

\* C8: with a PDF loaded and at least one keyword, an empty result is not a
\* failure. No paragraph extracted or none matched: the zero count and an
\* informational message are shown and the script stops before the tokens,
\* the CSV and the keyword counts. Paragraphs matched but no token left: only
\* the word cloud is skipped, which is said, and the CSV and the keyword
\* counts are still produced.
C8_EmptyResultsAreNotFailures ==
  (Ended /\ "FilterParagraphs" \in Range(stages)) =>
    /\ (paragraphs = <<>> \/ matched = <<>>) =>
         /\ pc = "stopped"
         /\ Msg("matching_paragraphs", 0, <<>>) \in Range(out)
         /\ paragraphs = <<>> => Msg("total_paragraphs", 0, <<>>) \in Range(out)
         /\ out[Len(out)] = Msg("info_no_match", 0, <<>>)
         /\ Range(stages) \cap {"BuildTokenList", "FrequencyTable", "WordCloudSection",
                                "DownloadCsv", "KeywordCounts"} = {}
    /\ (matched # <<>> /\ tokens = <<>>) =>
         /\ pc = "done"
         /\ {"BuildTokenList", "FrequencyTable", "WordCloudSection",
             "DownloadCsv", "KeywordCounts"} \subseteq Range(stages)
         /\ Kinds(out) \cap {"word_cloud", "ValueError"} = {}
         /\ {"info_no_tokens", "download_csv", "keyword_counts"} \subseteq Kinds(out)

\* A finished run whose matched paragraph left no token after the stopwords.
C8_Witness ==
  /\ pc = "done"
  /\ matched # <<>>
  /\ tokens = <<>>
  /\ "info_no_tokens" \in Kinds(out)

RECURSIVE SumOver(_, _)
SumOver(f, S) ==
  IF S = {} THEN 0
  ELSE LET k == CHOOSE k \in S : TRUE IN f[k] + SumOver(f, S \ {k})

\* C10: at the keyword-count stage each keyword's count is the number of
\* matched paragraphs holding it as a case-insensitive substring, between 0
\* and the number of matched paragraphs; every matched paragraph is counted
\* under some keyword, so the counts sum to at least the number of matched
\* paragraphs and some count is 1 or more.
C10_KeywordCounts ==
  "KeywordCounts" \in Range(stages) =>
    /\ DOMAIN keyword_counts = Range(keywords)
    /\ \A k \in DOMAIN keyword_counts :
         /\ keyword_counts[k] =
              Cardinality({i \in 1..Len(matched) :
                             \E a \in 1..(Len(matched[i]) - Len(k) + 1) :
                               \A b \in 1..Len(k) :
                                 LowerChar(matched[i][a + b - 1]) = LowerChar(k[b])})
         /\ keyword_counts[k] \in 0..Len(matched)
    /\ \A i \in 1..Len(matched) :
         \E k \in DOMAIN keyword_counts :
           keyword_counts[k] >= 1 /\ Contains(Lower(k), Lower(matched[i]))
    /\ SumOver(keyword_counts, DOMAIN keyword_counts) >= Len(matched)
    /\ \E k \in DOMAIN keyword_counts : keyword_counts[k] >= 1

\* Counts were made for two keywords of different case over matched
\* paragraphs, one keyword found in some paragraph and not in another.
C10_Witness ==
  /\ pc = "done"
  /\ Cardinality(DOMAIN keyword_counts) = 2
  /\ Len(matched) >= 2
  /\ \E k \in DOMAIN keyword_counts :
       /\ Lower(k) # k
       /\ keyword_counts[k] >= 1
       /\ keyword_counts[k] < Len(matched)

====
